---------------------------- MODULE Spec2Model ----------------------------
(***************************************************************************)
(* A model of the 2captcha client: twocaptcha/api.py (ApiClient) and       *)
(* twocaptcha/solver.py (TwoCaptcha).                                      *)
(*                                                                         *)
(* Text is a sequence of one-character strings; a text that the code never *)
(* looks into (an API key, a method name) is a one-element sequence whose  *)
(* element is the whole word.  A Python dict is a sequence of <<key,       *)
(* value>> pairs with distinct keys, in insertion order.                   *)
(***************************************************************************)
EXTENDS Integers, Sequences, FiniteSets, TLC

\* ------------------------------------------------------------------------
\* Bounds of the model
\* ------------------------------------------------------------------------
MaxPollDur == 3
MaxOversleep == 1
MaxAttempts == 7
MaxNow == 4

\* ------------------------------------------------------------------------
\* Text
\* ------------------------------------------------------------------------
\* F applied to the value of e, with e evaluated once (as Python evaluates the
\* argument of a call once)
Let(e, F(_)) == CHOOSE r \in {F(x) : x \in {e}} : TRUE

NoneV == <<"None">>

\* values that are not text: a number, a dict, a list, any other object
NumV(n) == <<"<num>", n>>

DictV(d) == <<"<dict>", d>>

ListV(l) == <<"<list>", l>>

ObjV == <<"<object>">>

\* a float that is not a whole number: n halves (0.5 is HalfV(1))
HalfV(n) == <<"<half>", n>>

IsNumV(v) == Len(v) = 2 /\ v[1] = "<num>"

IsDictV(v) == Len(v) = 2 /\ v[1] = "<dict>"

IsListV(v) == Len(v) = 2 /\ v[1] = "<list>"

IsHalfV(v) == Len(v) = 2 /\ v[1] = "<half>"

IsStr(v0) ==
  Let(v0, LAMBDA v :
    /\ ~IsNumV(v) /\ ~IsDictV(v) /\ ~IsListV(v) /\ ~IsHalfV(v)
    /\ v # NoneV /\ v # ObjV)

\* Python's truth value of v
Truthy(v0) ==
  Let(v0, LAMBDA v :
    IF IsNumV(v) \/ IsHalfV(v) THEN v[2] # 0
    ELSE IF IsDictV(v) \/ IsListV(v) THEN v[2] # <<>>
    ELSE v # NoneV /\ v # <<>>)

RECURSIVE Rep(_, _)
Rep(c, n) == IF n <= 0 THEN <<>> ELSE <<c>> \o Rep(c, n - 1)

StartsWith(s0, p) ==
  Let(s0, LAMBDA s : Len(s) >= Len(p) /\ SubSeq(s, 1, Len(p)) = p)

Contains(s0, sub) ==
  Let(s0, LAMBDA s :
    \E i \in 1..(Len(s) - Len(sub) + 1) : SubSeq(s, i, i + Len(sub) - 1) = sub)

From(s0, i) == Let(s0, LAMBDA s : SubSeq(s, i + 1, Len(s)))

OK_ == <<"O", "K", "|">>
ERROR_ == <<"E", "R", "R", "O", "R">>
CAPCHA_NOT_READY == <<"CAPCHA_NOT_READY">>

\* ------------------------------------------------------------------------
\* dict
\* ------------------------------------------------------------------------
EmptyDict == <<>>

Keys(d0) == Let(d0, LAMBDA d : {d[i][1] : i \in 1..Len(d)})

Has(d, k) == k \in Keys(d)

Get(d0, k, dflt) ==
  Let(d0, LAMBDA d :
    IF Has(d, k) THEN d[CHOOSE i \in 1..Len(d) : d[i][1] = k][2] ELSE dflt)

Set(d0, k, v) ==
  Let(d0, LAMBDA d :
    IF Has(d, k)
    THEN [i \in 1..Len(d) |-> IF d[i][1] = k THEN <<k, v>> ELSE d[i]]
    ELSE Append(d, <<k, v>>))

Pop(d, k) == SelectSeq(d, LAMBDA e : e[1] # k)

\* d.update(e)
RECURSIVE Update(_, _)
Update(d0, e0) ==
  Let(<<d0, e0>>, LAMBDA a :
    IF a[2] = <<>> THEN a[1]
    ELSE Update(Set(a[1], a[2][1][1], a[2][1][2]), Tail(a[2])))

\* ------------------------------------------------------------------------
\* Exceptions
\* ------------------------------------------------------------------------
SolverExceptions ==
  {"ValidationException", "NetworkException", "ApiException",
   "TimeoutException"}

ApiModuleExceptions == {"api.NetworkException", "api.ApiException"}

BuiltinExceptions ==
  {"NameError", "TypeError", "ValueError", "OSError", "AttributeError"}

Ret(v) == [exc |-> "none", val |-> v]

Raise(e) == [exc |-> e, val |-> <<>>]

\* ------------------------------------------------------------------------
\* The service's replies, as the requests library hands them over
\* ------------------------------------------------------------------------
Reply(st, tx) == [net |-> FALSE, status |-> st, text |-> tx]

RequestException == [net |-> TRUE, status |-> 0, text |-> <<>>]

Handles == {<<"a", "b", "c", "1", "2", "3">>, <<"E">>, <<>>}

Texts ==
  {OK_ \o h : h \in Handles} \cup
  { ERROR_ \o <<":", "k">>, OK_ \o ERROR_, CAPCHA_NOT_READY,
    <<"x">> \o OK_ \o <<"a">>, <<>> }

Statuses == {200, 201, 500}

Replies == {Reply(st, tx) : st \in Statuses, tx \in Texts} \cup {RequestException}

\* ------------------------------------------------------------------------
\* ApiClient (api.py)
\* ------------------------------------------------------------------------
\* a variant that takes every 2xx status for a success
StatusOk_Any2xx(status) == status \in 200..299

\* if resp.status_code != 200: raise NetworkException
StatusOk(status) == status = 200

\* what in_ and res do with a reply once the request has been made
Classify(reply) ==
  IF reply.net THEN Raise("api.NetworkException")
  ELSE IF ~StatusOk(reply.status) THEN Raise("api.NetworkException")
  ELSE IF Contains(reply.text, ERROR_) THEN Raise("api.ApiException")
  ELSE Ret(reply.text)

\* the paths open(path, 'rb') has opened, in order, when the comprehension
\* over files.items() ends or raises: those before the first that is missing
Opened(files, fs) ==
  IF \E i \in 1..Len(files) : files[i][2] \notin fs
  THEN [j \in 1..((CHOOSE i \in 1..Len(files) :
                     /\ files[i][2] \notin fs
                     /\ \A k \in 1..(i - 1) : files[k][2] \in fs) - 1)
          |-> files[j][2]]
  ELSE [j \in 1..Len(files) |-> files[j][2]]

\* a variant that leaves the closing to the garbage collector
with_exit_Leak(entered) == <<>>

\* leaving a with block, by its end or by an exception: the handles it closes
\* are those entered (ExitStack.enter_context, or the file of `with open`)
with_exit(entered) == entered

\* a request of in_ that was not made or made, with the handles opened and
\* closed by the time in_ returns or raises
Request(out, sent, data, upload, opened) ==
  [out |-> out, sent |-> sent, data |-> data, upload |-> upload,
   opened |-> opened, closed |-> with_exit(opened)]

\* in_(files, **kwargs) on a file system fs: the outcome, whether a request
\* went out, and the form fields (data) and file fields (upload) it carried
in_(files, kwargs, fs, reply) ==
  IF files # EmptyDict
  THEN IF \E i \in 1..Len(files) : files[i][2] \notin fs
       THEN Request(Raise("OSError"), FALSE, EmptyDict, EmptyDict, Opened(files, fs))
       ELSE Request(Classify(reply), TRUE, kwargs, files, Opened(files, fs))
  ELSE IF Has(kwargs, "file")
  THEN IF Get(kwargs, "file", NoneV) \notin fs
       THEN Request(Raise("OSError"), FALSE, EmptyDict, EmptyDict, <<>>)
       ELSE Request(Classify(reply), TRUE, Pop(kwargs, "file"),
                    <<<<"file", Get(kwargs, "file", NoneV)>>>>,
                    <<Get(kwargs, "file", NoneV)>>)
  ELSE Request(Classify(reply), TRUE, kwargs, EmptyDict, <<>>)

res(kwargs, reply) == Classify(reply)

\* ------------------------------------------------------------------------
\* Characters, base64 and urlparse (the library functions solver.py calls)
\* ------------------------------------------------------------------------
LowerSeq ==
  <<"a", "b", "c", "d", "e", "f", "g", "h", "i", "j", "k", "l", "m",
    "n", "o", "p", "q", "r", "s", "t", "u", "v", "w", "x", "y", "z">>

UpperSeq ==
  <<"A", "B", "C", "D", "E", "F", "G", "H", "I", "J", "K", "L", "M",
    "N", "O", "P", "Q", "R", "S", "T", "U", "V", "W", "X", "Y", "Z">>

DigitSeq == <<"0", "1", "2", "3", "4", "5", "6", "7", "8", "9">>

B64Alphabet == UpperSeq \o LowerSeq \o DigitSeq \o <<"+", "/">>

Range(s) == {s[i] : i \in 1..Len(s)}

B64Chars == Range(B64Alphabet)

IsAlpha(c) == c \in Range(LowerSeq) \cup Range(UpperSeq)

IsSchemeChar(c) == IsAlpha(c) \/ c \in Range(DigitSeq) \cup {"+", "-", "."}

LowerChar(c) ==
  IF c \in Range(UpperSeq)
  THEN LowerSeq[CHOOSE i \in 1..Len(UpperSeq) : UpperSeq[i] = c]
  ELSE c

LowerText(s) == [i \in 1..Len(s) |-> LowerChar(s[i])]

\* base64.b64encode on a sequence of bytes (0..255)
RECURSIVE b64encode(_)
b64encode(bytes) ==
  IF Len(bytes) = 0 THEN <<>>
  ELSE IF Len(bytes) = 1
  THEN LET n == bytes[1] * 65536
       IN  <<B64Alphabet[(n \div 262144) + 1],
             B64Alphabet[((n \div 4096) % 64) + 1], "=", "=">>
  ELSE IF Len(bytes) = 2
  THEN LET n == bytes[1] * 65536 + bytes[2] * 256
       IN  <<B64Alphabet[(n \div 262144) + 1],
             B64Alphabet[((n \div 4096) % 64) + 1],
             B64Alphabet[((n \div 64) % 64) + 1], "=">>
  ELSE LET n == bytes[1] * 65536 + bytes[2] * 256 + bytes[3]
       IN  <<B64Alphabet[(n \div 262144) + 1],
             B64Alphabet[((n \div 4096) % 64) + 1],
             B64Alphabet[((n \div 64) % 64) + 1],
             B64Alphabet[(n % 64) + 1]>> \o b64encode(SubSeq(bytes, 4, Len(bytes)))

\* base64.b64decode(s) without validate: TRUE when it returns, FALSE when it
\* raises binascii.Error.  quad is the position inside the current group of
\* four, pads the number of "=" seen since the last data character.
RECURSIVE B64Scan(_, _, _)
B64Scan(s, quad, pads) ==
  IF s = <<>> THEN quad = 0
  ELSE IF Head(s) = "="
  THEN IF quad >= 2 /\ quad + pads + 1 >= 4 THEN TRUE
       ELSE B64Scan(Tail(s), quad, IF quad >= 2 THEN pads + 1 ELSE pads)
  ELSE IF Head(s) \in B64Chars THEN B64Scan(Tail(s), (quad + 1) % 4, 0)
  ELSE B64Scan(Tail(s), quad, pads)

b64decodeOk(s) == B64Scan(s, 0, 0)

\* re.match(r'^[A-Za-z0-9+/]*={0,2}$', s)
B64Regex(s) ==
  \E n \in 0..2 :
    /\ n <= Len(s)
    /\ \A i \in 1..Len(s) :
         IF i <= Len(s) - n THEN s[i] \in B64Chars ELSE s[i] = "="

IndexOf(s, cs) ==
  IF \E i \in 1..Len(s) : s[i] \in cs
  THEN CHOOSE i \in 1..Len(s) : s[i] \in cs /\ \A j \in 1..(i - 1) : s[j] \notin cs
  ELSE 0

\* urllib.parse.urlparse(url): the scheme, the netloc, and whether it raises
\* ValueError
urlparse(url) ==
  LET colon == IndexOf(url, {":"})
      prefix == SubSeq(url, 1, colon - 1)
      hasScheme == /\ colon > 1
                   /\ IsAlpha(url[1])
                   /\ \A i \in 1..Len(prefix) : IsSchemeChar(prefix[i])
      scheme == IF hasScheme THEN LowerText(prefix) ELSE <<>>
      rest == IF hasScheme THEN From(url, colon) ELSE url
      hasNetloc == StartsWith(rest, <<"/", "/">>)
      after == From(rest, 2)
      stop == IndexOf(after, {"/", "?", "#"})
      netloc == IF ~hasNetloc THEN <<>>
                ELSE IF stop = 0 THEN after ELSE SubSeq(after, 1, stop - 1)
      bad == ("[" \in Range(netloc)) # ("]" \in Range(netloc))
  IN  [scheme |-> scheme, netloc |-> netloc, valueError |-> bad]

IsHttpUrl(s) ==
  LET u == urlparse(s)
  IN  ~u.valueError /\ u.scheme \in {<<"h", "t", "t", "p">>, <<"h", "t", "t", "p", "s">>}
      /\ u.netloc # <<>>

\* the outcome of requests.get(url, timeout=10) followed by raise_for_status
FetchOk(content) == [failed |-> FALSE, content |-> content]

FetchFailed == [failed |-> TRUE, content |-> <<>>]

\* ------------------------------------------------------------------------
\* TwoCaptcha (solver.py): the functions without a loop
\* ------------------------------------------------------------------------
\* a variant of the module that binds the name callback at module level
ModuleGlobals_WithCallback ==
  {"os", "sys", "time", "requests", "base64", "re", "urlparse", "ApiClient",
   "SolverExceptions", "ValidationException", "NetworkException",
   "ApiException", "TimeoutException", "TwoCaptcha", "callback"}

\* the names bound at module level in solver.py
ModuleGlobals ==
  {"os", "sys", "time", "requests", "base64", "re", "urlparse", "ApiClient",
   "SolverExceptions", "ValidationException", "NetworkException",
   "ApiException", "TimeoutException", "TwoCaptcha"}

_is_base64_like(s) ==
  IF ~IsStr(s) \/ s = <<>> THEN FALSE
  ELSE IF Len(s) < 20 THEN FALSE
  ELSE IF ~B64Regex(s) THEN FALSE
  ELSE b64decodeOk(s)

\* an outcome r of get_method, with the number of requests.get calls made
Fetched(r, n) == [exc |-> r.exc, val |-> r.val, fetched |-> n]

\* a variant that goes on to the path and base64 checks when the download
\* fails
get_method_FallThrough(file_input, fs, fetch) ==
  IF ~Truthy(file_input) THEN Fetched(Raise("ValidationException"), 0)
  ELSE IF ~IsStr(file_input) THEN Fetched(Raise("ValidationException"), 0)
  ELSE IF IsHttpUrl(file_input) /\ ~fetch.failed
  THEN Fetched(Ret(<<<<"method", <<"base64">>>>,
                     <<"body", b64encode(fetch.content)>>>>), 1)
  ELSE Let(IF IsHttpUrl(file_input) THEN 1 ELSE 0, LAMBDA n :
         IF file_input \in fs
         THEN Fetched(Ret(<<<<"method", <<"post">>>>, <<"file", file_input>>>>), n)
         ELSE IF _is_base64_like(file_input)
         THEN Fetched(Ret(<<<<"method", <<"base64">>>>, <<"body", file_input>>>>), n)
         ELSE Fetched(Raise("ValidationException"), n))

\* a variant that looks for a local file before it looks for a URL
get_method_FileFirst(file_input, fs, fetch) ==
  IF ~Truthy(file_input) THEN Fetched(Raise("ValidationException"), 0)
  ELSE IF ~IsStr(file_input) THEN Fetched(Raise("ValidationException"), 0)
  ELSE IF file_input \in fs
  THEN Fetched(Ret(<<<<"method", <<"post">>>>, <<"file", file_input>>>>), 0)
  ELSE IF IsHttpUrl(file_input)
  THEN IF fetch.failed THEN Fetched(Raise("ValidationException"), 1)
       ELSE Fetched(Ret(<<<<"method", <<"base64">>>>,
                          <<"body", b64encode(fetch.content)>>>>), 1)
  ELSE IF _is_base64_like(file_input)
  THEN Fetched(Ret(<<<<"method", <<"base64">>>>, <<"body", file_input>>>>), 0)
  ELSE Fetched(Raise("ValidationException"), 0)

get_method(file_input, fs, fetch) ==
  IF ~Truthy(file_input) THEN Fetched(Raise("ValidationException"), 0)
  ELSE IF ~IsStr(file_input) THEN Fetched(Raise("ValidationException"), 0)
  ELSE IF IsHttpUrl(file_input)
  THEN IF fetch.failed THEN Fetched(Raise("ValidationException"), 1)
       ELSE Fetched(Ret(<<<<"method", <<"base64">>>>,
                          <<"body", b64encode(fetch.content)>>>>), 1)
  ELSE IF file_input \in fs
  THEN Fetched(Ret(<<<<"method", <<"post">>>>, <<"file", file_input>>>>), 0)
  ELSE IF _is_base64_like(file_input)
  THEN Fetched(Ret(<<<<"method", <<"base64">>>>, <<"body", file_input>>>>), 0)
  ELSE Fetched(Raise("ValidationException"), 0)

\* a variant of the table in which url keeps its name
replace_UrlKept ==
  << <<"case_sensitive", "regsense">>, <<"min_len", "min_len">>,
     <<"max_len", "max_len">>, <<"hint_text", "textinstructions">>,
     <<"hint_img", "imginstructions">>, <<"url", "url">>,
     <<"score", "min_score">>, <<"text", "textcaptcha">>,
     <<"rows", "recaptcharows">>, <<"cols", "recaptchacols">>,
     <<"previous_id", "previousID">>, <<"can_skip", "can_no_answer">>,
     <<"api_server", "api_server">>, <<"soft_id", "soft_id">>,
     <<"callback", "pingback">>, <<"datas", "data-s">>,
     <<"site_key", "sitekey">>, <<"captcha_id", "captchaid">>,
     <<"app_id", "appid">>, <<"api_key", "apikey">> >>

replace ==
  << <<"case_sensitive", "regsense">>, <<"min_len", "min_len">>,
     <<"max_len", "max_len">>, <<"hint_text", "textinstructions">>,
     <<"hint_img", "imginstructions">>, <<"url", "pageurl">>,
     <<"score", "min_score">>, <<"text", "textcaptcha">>,
     <<"rows", "recaptcharows">>, <<"cols", "recaptchacols">>,
     <<"previous_id", "previousID">>, <<"can_skip", "can_no_answer">>,
     <<"api_server", "api_server">>, <<"soft_id", "soft_id">>,
     <<"callback", "pingback">>, <<"datas", "data-s">>,
     <<"site_key", "sitekey">>, <<"captcha_id", "captchaid">>,
     <<"app_id", "appid">>, <<"api_key", "apikey">> >>

\* the loop of rename_params over list(params.keys()): ks is what is left of
\* the key list, new the dict being built, params the dict being emptied
RECURSIVE RenameLoop(_, _, _)
RenameLoop(ks, new, params) ==
  IF ks = <<>> THEN [new |-> new, params |-> params]
  ELSE LET k == Head(ks)
       IN  IF Has(replace, k)
           THEN RenameLoop(Tail(ks), Set(new, Get(replace, k, k), Get(params, k, NoneV)),
                           Pop(params, k))
           ELSE IF k = "user_agent"
           THEN RenameLoop(Tail(ks), Set(new, "useragent", Get(params, k, NoneV)),
                           Pop(params, k))
           ELSE IF k = "sitekey"
           THEN RenameLoop(Tail(ks), Set(new, "sitekey", Get(params, k, NoneV)),
                           Pop(params, k))
           ELSE RenameLoop(Tail(ks), new, params)

rename_params(params) ==
  Let(RenameLoop([i \in 1..Len(params) |-> params[i][1]], EmptyDict, params),
      LAMBDA l :
    Let(Get(l.params, "proxy", <<>>), LAMBDA proxy :
      Update(IF Truthy(proxy) /\ IsDictV(proxy)
             THEN Set(Set(l.new, "proxy", Get(proxy[2], "uri", NoneV)),
                      "proxytype", Get(proxy[2], "type", NoneV))
             ELSE l.new,
             Pop(l.params, "proxy"))))

default_params(self, params) ==
  Let(Set(params, "key", self.api_key), LAMBDA p1 :
    Let(Get(p1, "callback", self.callback), LAMBDA callback_val :
      Let(Pop(p1, "callback"), LAMBDA p2 :
        Let(Get(p2, "soft_id", self.soft_id), LAMBDA soft_id_val :
          Let(IF Truthy(callback_val)
              THEN Set(Pop(p2, "soft_id"), "callback", callback_val)
              ELSE Pop(p2, "soft_id"), LAMBDA p4 :
            Let(IF Truthy(soft_id_val) THEN Set(p4, "soft_id", soft_id_val) ELSE p4,
                LAMBDA p5 :
              \* self.has_callback = bool(callback)
              IF "callback" \in ModuleGlobals THEN Ret(p5)
              ELSE Raise("NameError")))))))

\* the client after the statement self.has_callback = bool(callback) of
\* default_params: the right-hand side is evaluated before the attribute is
\* stored, so nothing is stored when the name is not bound
has_callback_store(self) ==
  IF "callback" \in ModuleGlobals THEN [self EXCEPT !.has_callback = "True"]
  ELSE self

\* check_hint_img: the returned pair (params, files)
check_hint_img(params, fs, fetch) ==
  Let(Get(params, "imginstructions", NoneV), LAMBDA hint :
    Let(Pop(Pop(params, "imginstructions"), "files"), LAMBDA p2 :
      Let(IF Has(params, "files") THEN Get(params, "files", NoneV)[2] ELSE EmptyDict,
          LAMBDA files :
        IF ~Truthy(hint) THEN Ret([params |-> p2, files |-> files])
        \* urlparse on a value that is not text
        ELSE IF ~IsStr(hint) THEN Raise("AttributeError")
        ELSE IF IsHttpUrl(hint) /\ ~fetch.failed
        THEN Ret([params |-> Set(p2, "imginstructions", b64encode(fetch.content)),
                  files |-> files])
        ELSE IF hint \in fs
        THEN Ret([params |-> p2, files |-> Set(files, "imginstructions", hint)])
        ELSE IF _is_base64_like(hint)
        THEN Ret([params |-> Set(p2, "imginstructions", hint), files |-> files])
        ELSE Raise("ValidationException"))))

\* send(**kwargs): the outcome and the request it posted, if any
NoRequest(out) ==
  [out |-> out, sent |-> FALSE, data |-> EmptyDict, upload |-> EmptyDict,
   opened |-> <<>>, closed |-> <<>>]

\* a variant that posts the submission before it looks at the instruction
\* image
send_SubmitFirst(self, kwargs, fs, fetch, reply) ==
  Let(rename_params(Set(kwargs, "key", self.api_key)), LAMBDA params :
    Let(in_(EmptyDict, Pop(params, "files"), fs, reply), LAMBDA r :
      Let(check_hint_img(params, fs, fetch), LAMBDA ch :
        IF ch.exc # "none" THEN [r EXCEPT !.out = Raise(ch.exc)]
        ELSE IF r.out.exc # "none" THEN r
        ELSE IF ~StartsWith(r.out.val, OK_)
        THEN [r EXCEPT !.out = Raise("ApiException")]
        ELSE [r EXCEPT !.out = Ret(From(r.out.val, 3))])))

send(self, kwargs, fs, fetch, reply) ==
  Let(default_params(self, kwargs), LAMBDA dp :
    IF dp.exc # "none" THEN NoRequest(dp)
    ELSE
    Let(rename_params(dp.val), LAMBDA params :
      Let(check_hint_img(params, fs, fetch), LAMBDA ch :
        IF ch.exc # "none" THEN NoRequest(ch)
        ELSE
        Let(in_(ch.val.files, ch.val.params, fs, reply), LAMBDA r :
          IF r.out.exc # "none" THEN r
          ELSE IF ~StartsWith(r.out.val, OK_)
          THEN [r EXCEPT !.out = Raise("ApiException")]
          ELSE [r EXCEPT !.out = Ret(From(r.out.val, 3))]))))

\* the keyword arguments get_result calls ApiClient.res with
get_result_kwargs(self, id_) ==
  <<<<"key", self.api_key>>, <<"action", <<"get">>>>, <<"id", id_>>>>

\* a variant that returns the body with its OK| prefix
get_result_WholeBody(self, id_, reply) ==
  Let(res(get_result_kwargs(self, id_), reply), LAMBDA response :
    IF response.exc # "none" THEN response
    ELSE IF response.val = CAPCHA_NOT_READY THEN Raise("NetworkException")
    ELSE IF ~StartsWith(response.val, OK_) THEN Raise("ApiException")
    ELSE Ret(response.val))

\* get_result(id_): one request to res.php and what is made of the reply
get_result(self, id_, reply) ==
  Let(res(get_result_kwargs(self, id_), reply),
      LAMBDA response :
    IF response.exc # "none" THEN response
    ELSE IF response.val = CAPCHA_NOT_READY THEN Raise("NetworkException")
    ELSE IF ~StartsWith(response.val, OK_) THEN Raise("ApiException")
    ELSE Ret(From(response.val, 3)))

\* ------------------------------------------------------------------------
\* The builders for image and audio captchas.  Each returns the keyword
\* arguments it hands to solve, or the exception it raises before that.
\* ------------------------------------------------------------------------
\* f(**a, **b): Python refuses a keyword given twice
CallKwargs(a, b) ==
  IF Keys(a) \cap Keys(b) # {} THEN Raise("TypeError") ELSE Ret(Update(a, b))

\* the choice between the 'body' keyword and file_input that normal, grid,
\* canvas, coordinates and rotate share: method_params and what is left of
\* kwargs
method_params(file_input, kwargs, fs, fetch) ==
  IF Has(kwargs, "body") /\ Truthy(Get(kwargs, "body", NoneV)) /\ ~Truthy(file_input)
  THEN Ret([mp |-> <<<<"method", <<"base64">>>>, <<"body", Get(kwargs, "body", NoneV)>>>>,
            kwargs |-> Pop(kwargs, "body")])
  ELSE IF Truthy(file_input)
  THEN Let(get_method(file_input, fs, fetch), LAMBDA m :
         IF m.exc # "none" THEN Raise(m.exc)
         ELSE Ret([mp |-> m.val, kwargs |-> kwargs]))
  ELSE Raise("ValidationException")

\* recaptcha(site_key, url, version='v2', enterprise=0, **kwargs): the
\* keyword arguments of self.solve(timeout=self.recaptcha_timeout, **params)
recaptcha(self, site_key, url, version, enterprise, kwargs) ==
  CallKwargs(<<<<"timeout", NumV(self.recaptcha_timeout)>>>>,
             Update(<<<<"googlekey", site_key>>, <<"url", url>>,
                      <<"method", <<"userrecaptcha">>>>, <<"version", version>>,
                      <<"enterprise", enterprise>>>>, kwargs))

normal(file_input, kwargs, fs, fetch) ==
  Let(method_params(file_input, kwargs, fs, fetch), LAMBDA m :
    IF m.exc # "none" THEN m ELSE CallKwargs(m.val.mp, m.val.kwargs))

grid(file_input, kwargs, fs, fetch) ==
  Let(method_params(file_input, kwargs, fs, fetch), LAMBDA m :
    IF m.exc # "none" THEN m
    ELSE Ret(Update(Update(<<<<"recaptcha", NumV(1)>>>>, m.val.mp), m.val.kwargs)))

canvas(file_input, kwargs, fs, fetch) ==
  IF ~(Has(kwargs, "hint_text") \/ Has(kwargs, "hint_img"))
  THEN Raise("ValidationException")
  ELSE Let(method_params(file_input, kwargs, fs, fetch), LAMBDA m :
         IF m.exc # "none" THEN m
         ELSE Ret(Update(Update(<<<<"recaptcha", NumV(1)>>, <<"canvas", NumV(1)>>>>,
                                m.val.mp), m.val.kwargs)))

coordinates(file_input, kwargs, fs, fetch) ==
  Let(method_params(file_input, kwargs, fs, fetch), LAMBDA m :
    IF m.exc # "none" THEN m
    ELSE Ret(Update(Update(<<<<"coordinatescaptcha", NumV(1)>>>>, m.val.mp),
                    m.val.kwargs)))

max_files == 9

extract_files(files, fs) ==
  IF Len(files) > max_files THEN Raise("ValidationException")
  ELSE IF \E i \in 1..Len(files) : files[i] \notin fs THEN Raise("ValidationException")
  ELSE Ret([i \in 1..Len(files) |-> <<"file_" \o ToString(i), files[i]>>])

rotate(files_input, kwargs, fs, fetch) ==
  IF IsStr(files_input)
  THEN Let(method_params(files_input, kwargs, fs, fetch), LAMBDA m :
         IF m.exc # "none" THEN m
         ELSE Ret(Update(IF Get(m.val.mp, "method", NoneV) = <<"base64">>
                         THEN <<<<"method", <<"rotatecaptcha">>>>,
                                <<"body", Get(m.val.mp, "body", NoneV)>>>>
                         ELSE <<<<"method", <<"rotatecaptcha">>>>,
                                <<"file", Get(m.val.mp, "file", NoneV)>>>>,
                         m.val.kwargs)))
  ELSE IF IsDictV(files_input) \/ IsListV(files_input)
  THEN Let(extract_files(IF IsDictV(files_input)
                         THEN [i \in 1..Len(files_input[2]) |-> files_input[2][i][2]]
                         ELSE files_input[2], fs), LAMBDA ex :
         IF ex.exc # "none" THEN ex
         ELSE CallKwargs(<<<<"files", DictV(ex.val)>>, <<"method", <<"rotatecaptcha">>>>>>,
                         kwargs))
  ELSE Raise("ValidationException")

AudioLangs == {"en", "ru", "de", "el", "pt", "fr"}

EndsWith(s, p) == Len(s) >= Len(p) /\ SubSeq(s, Len(s) - Len(p) + 1, Len(s)) = p

\* the bytes of the local files of the model
FileBytes(path) == IF Len(path) > 5 THEN <<77, 97, 110>> ELSE <<>>

audio(file_input, lang, kwargs, fs, fetch) ==
  IF ~Truthy(file_input) THEN Raise("ValidationException")
  ELSE IF lang \notin AudioLangs THEN Raise("ValidationException")
  ELSE IF ~IsStr(file_input) THEN Raise("ValidationException")
  ELSE
  Let(IF StartsWith(file_input, <<"h", "t", "t", "p">>)
      THEN IF fetch.failed THEN Raise("ValidationException")
           ELSE Ret(b64encode(fetch.content))
      ELSE IF file_input \in fs
      THEN IF ~EndsWith(LowerText(file_input), <<".", "m", "p", "3">>)
           THEN Raise("ValidationException")
           ELSE Ret(b64encode(FileBytes(file_input)))
      ELSE IF _is_base64_like(file_input) THEN Ret(file_input)
      ELSE Raise("ValidationException"), LAMBDA body_content :
    IF body_content.exc # "none" THEN body_content
    ELSE IF ~Truthy(body_content.val) THEN Raise("ValidationException")
    ELSE CallKwargs(<<<<"body", body_content.val>>, <<"method", <<"audio">>>>,
                      <<"lang", <<lang>>>>>>, kwargs))

\* ------------------------------------------------------------------------
\* Inputs of the model
\* ------------------------------------------------------------------------
KEY == <<"KEY">>

CB_URL == <<"h", "t", "t", "p", ":", "/", "/", "c", "b">>

IMG_URL == <<"h", "t", "t", "p", "s", ":", "/", "/", "x", "/", "i">>

PNG == <<"c", ".", "p", "n", "g">>

MP3 == <<"a", "u", ".", "M", "P", "3">>

B64_20 == Rep("A", 20)

B64_21 == Rep("A", 21)

B64_PAD == Rep("A", 22) \o <<"=", "=">>

JUNK == <<"j", "u", "n", "k", "!">>

\* urlparse raises ValueError on it (a bracket that is not closed)
BAD_URL == <<"h", "t", "t", "p", ":", "/", "/", "[", "x">>

\* the third has a directory "https:" (so that the text of IMG_URL is also a
\* path that exists) and a file whose name is twenty base64 characters
FileSystems == {{}, {PNG, MP3}, {PNG, MP3, B64_20, IMG_URL}}

Callbacks == {NoneV, <<>>, CB_URL}

Clients ==
  [api_key : {KEY}, soft_id : {NumV(4580)}, callback : Callbacks,
   default_timeout : {5}, recaptcha_timeout : {6}, polling_interval : {2},
   \* an attribute __init__ does not set
   has_callback : {"unset"}]

FileInputs ==
  {NoneV, <<>>, ObjV, IMG_URL, BAD_URL, PNG, MP3, B64_20, B64_21, B64_PAD, JUNK}

FilesInputs ==
  {ListV(<<>>), ListV(<<PNG>>), ListV(<<PNG, MP3>>), ListV(<<PNG, JUNK>>),
   ListV(Rep(PNG, max_files + 1)), DictV(<<<<"one", PNG>>>>)}

BuilderKwargs ==
  { EmptyDict,
    <<<<"body", B64_PAD>>>>,
    <<<<"body", <<>>>>>>,
    <<<<"hint_text", <<"t">>>>>>,
    <<<<"hint_text", <<"t">>>>, <<"body", B64_PAD>>>>,
    <<<<"hint_img", PNG>>>>,
    <<<<"callback", CB_URL>>>>,
    <<<<"file", PNG>>>> }

Fetches == {FetchFailed, FetchOk(<<>>), FetchOk(<<77, 97, 110>>)}

PROXY == DictV(<<<<"type", <<"HTTPS">>>>, <<"uri", <<"u:p@1.2.3.4:80">>>>>>)

SolveKwargs ==
  { <<<<"method", <<"userrecaptcha">>>>, <<"site_key", <<"s">>>>, <<"url", CB_URL>>>>,
    <<<<"method", <<"userrecaptcha">>>>, <<"site_key", <<"s">>>>, <<"url", CB_URL>>,
      <<"proxy", PROXY>>>>,
    <<<<"method", <<"base64">>>>, <<"body", B64_20>>, <<"timeout", NumV(-1)>>,
      <<"polling_interval", HalfV(1)>>>>,
    <<<<"method", <<"base64">>>>, <<"body", B64_PAD>>, <<"timeout", NumV(3)>>>>,
    <<<<"method", <<"post">>>>, <<"file", PNG>>, <<"hint_img", PNG>>>>,
    <<<<"method", <<"base64">>>>, <<"body", B64_20>>, <<"callback", CB_URL>>,
      <<"polling_interval", NumV(1)>>>>,
    <<<<"method", <<"post">>>>, <<"file", JUNK>>>>,
    <<<<"method", <<"base64">>>>, <<"body", B64_20>>, <<"hint_img", JUNK>>>> }

\* the keyword arguments recaptcha is called with
RecaptchaKwargs ==
  { EmptyDict,
    <<<<"timeout", NumV(3)>>>>,
    <<<<"polling_interval", NumV(1)>>>>,
    <<<<"timeout", NumV(3)>>, <<"polling_interval", NumV(1)>>>>,
    <<<<"callback", CB_URL>>>> }

\* the mappings rename_params is called with
RenameInputs ==
  { EmptyDict,
    <<<<"url", CB_URL>>, <<"min_len", NumV(1)>>, <<"x", <<"v">>>>>>,
    <<<<"proxy", PROXY>>, <<"url", CB_URL>>>>,
    <<<<"method", <<"post">>>>, <<"proxy", <<"u:p@1.2.3.4:80">>>>>>,
    <<<<"proxy", DictV(EmptyDict)>>, <<"x", <<"v">>>>>>,
    <<<<"proxy", NoneV>>>>,
    <<<<"sitekey", <<"s">>>>, <<"site_key", <<"t">>>>>>,
    <<<<"user_agent", <<"ua">>>>, <<"hint_img", PNG>>, <<"proxy", PROXY>>,
      <<"pageurl", CB_URL>>>>,
    <<<<"case_sensitive", NumV(1)>>, <<"hint_text", <<"t">>>>, <<"hint_img", PNG>>,
      <<"url", IMG_URL>>, <<"callback", CB_URL>>, <<"site_key", <<"s">>>>,
      <<"rows", NumV(3)>>, <<"cols", NumV(4)>>, <<"can_skip", NumV(0)>>,
      <<"score", NumV(2)>>, <<"lang", <<"en">>>>>>,
    <<<<"url", IMG_URL>>, <<"pageurl", CB_URL>>>> }

\* the files and keyword arguments ApiClient.in_ is called with
InFiles ==
  { EmptyDict, <<<<"file", PNG>>>>, <<<<"file", JUNK>>>>,
    <<<<"imginstructions", PNG>>>>,
    <<<<"file_1", PNG>>, <<"file_2", MP3>>>>,
    <<<<"file_1", PNG>>, <<"file_2", JUNK>>, <<"file_3", MP3>>>> }

InKwargs ==
  { <<<<"key", KEY>>>>, <<<<"key", KEY>>, <<"file", PNG>>>>,
    <<<<"key", KEY>>, <<"file", JUNK>>>> }

Timeouts == {-1, 0, 1, 3, 5}

Intervals == {-1, 0, 1, 2}

\* ------------------------------------------------------------------------
\* State
\* ------------------------------------------------------------------------
VARIABLES
  self,     \* the client's fields, set by __init__
  fs,       \* the paths that exist on the local file system
  pc,       \* "idle", or where the call in progress stands: "loop" (the
            \* while test of wait_result), "sleep", "done"
  op,       \* the public method the caller invoked
  args,     \* its arguments
  built,    \* the keyword arguments a builder handed to solve
  result,   \* what the call returned or raised
  posted,   \* the request the call posted to in.php
  polls,    \* the number of requests the call made to res.php
  last,     \* the most recent of them: when it began and ended, the reply,
            \* what get_result made of it, and the sleep that followed
  now,      \* time.time(), in seconds, counted from the start of the call
  wait,     \* the arguments and local variables of wait_result
  threads   \* the calls in progress when several threads use the client

vars ==
  <<self, fs, pc, op, args, built, result, posted, polls, last, now, wait,
    threads>>

Pending == [exc |-> "pending", val |-> <<>>]

NoWait ==
  [id_ |-> <<>>, timeout |-> 0, polling_interval |-> 0, max_wait |-> 0,
   from_solve |-> FALSE]

NoPost == NoRequest(Pending)

PollRecord(start, end, request, reply, out) ==
  [start |-> start, end |-> end, request |-> request, reply |-> reply,
   out |-> out, slept |-> -1]

NoPoll == PollRecord(0, 0, EmptyDict, RequestException, Pending)

\* the threads that call the client, and a thread that has made no call
Threads == {1, 2}

IdleThread ==
  [pc |-> "idle", op |-> "none", kwargs |-> EmptyDict,
   reply |-> RequestException, posted |-> NoPost,
   result |-> Pending, wait |-> NoWait, last |-> NoPoll, wake |-> 0]

NoThreads == [t \in Threads |-> IdleThread]

Init ==
  /\ self \in Clients
  /\ fs \in FileSystems
  /\ pc = "idle"
  /\ op = "none"
  /\ args = <<>>
  /\ built = Pending
  /\ result = Pending
  /\ posted = NoPost
  /\ polls = 0
  /\ last = NoPoll
  /\ now = 0
  /\ wait = NoWait
  /\ threads = NoThreads

CanCall == pc = "idle"

\* ------------------------------------------------------------------------
\* solve, up to the call of wait_result
\* ------------------------------------------------------------------------
\* `x or y` on a number argument x and a client field y
OrDefault(x, y) == IF Truthy(x) THEN x ELSE NumV(y)

\* float(x) on a whole number of seconds (the clock of the model counts whole
\* seconds, and the timeouts it is given are whole)
float(x) == x[2]

\* int(x): a float is cut towards zero
int(x) ==
  IF IsHalfV(x)
  THEN IF x[2] >= 0 THEN x[2] \div 2 ELSE -((-x[2]) \div 2)
  ELSE x[2]

\* a variant that goes on to wait_result whatever send did
solve_after_send_PollAnyway(client, timeout, polling_interval, s, t0) ==
  [result |-> [exc |-> "pending", val |-> <<<<"captchaId", s.out.val>>>>],
   pc |-> "loop",
   wait |-> [id_ |-> s.out.val,
             timeout |-> float(OrDefault(timeout, client.default_timeout)),
             polling_interval |->
               int(OrDefault(polling_interval, client.polling_interval)),
             max_wait |-> t0 + float(OrDefault(timeout, client.default_timeout)),
             from_solve |-> TRUE]]

\* solve after send returned or raised s, at time t0: the branch on
\* self.callback, and the arguments wait_result is called with
solve_after_send(client, timeout, polling_interval, s, t0) ==
  IF s.out.exc # "none"
  THEN [result |-> s.out, pc |-> "done", wait |-> NoWait]
  ELSE IF client.callback = NoneV
  THEN [result |-> [exc |-> "pending", val |-> <<<<"captchaId", s.out.val>>>>],
        pc |-> "loop",
        wait |-> [id_ |-> s.out.val,
                  timeout |-> float(OrDefault(timeout, client.default_timeout)),
                  polling_interval |->
                    int(OrDefault(polling_interval, client.polling_interval)),
                  max_wait |->
                    t0 + float(OrDefault(timeout, client.default_timeout)),
                  from_solve |-> TRUE]]
  ELSE [result |-> Ret(<<<<"captchaId", s.out.val>>>>), pc |-> "done",
        wait |-> NoWait]

\* solve(timeout=0, polling_interval=0, **kwargs) called with the keyword
\* arguments kw: the state after send, and after the branch on self.callback
SolveFrom(kw, fetch, reply) ==
  \E timeout \in {Get(kw, "timeout", NumV(0))},
     polling_interval \in {Get(kw, "polling_interval", NumV(0))},
     s \in {send(self, Pop(Pop(kw, "timeout"), "polling_interval"), fs, fetch, reply)} :
    \E st \in {solve_after_send(self, timeout, polling_interval, s, 0)} :
      /\ self' = has_callback_store(self)
      /\ posted' = s
      /\ polls' = 0
      /\ last' = NoPoll
      /\ now' = 0
      /\ result' = st.result
      /\ pc' = st.pc
      /\ wait' = st.wait

\* a builder that ended in b: it raised, or it called solve(**b.val)
BuilderThenSolve(b, fetch, reply) ==
  /\ built' = b
  /\ IF b.exc # "none"
     THEN /\ result' = b
          /\ pc' = "done"
          /\ self' = self
          /\ posted' = NoPost
          /\ polls' = 0
          /\ last' = NoPoll
          /\ now' = 0
          /\ wait' = NoWait
     ELSE SolveFrom(b.val, fetch, reply)

\* ------------------------------------------------------------------------
\* Calls of the public methods
\* ------------------------------------------------------------------------
Solve ==
  /\ CanCall
  /\ \E kw \in SolveKwargs, fetch \in Fetches, reply \in Replies :
       /\ op' = "solve"
       /\ args' = [kwargs |-> kw, fetch |-> fetch, reply |-> reply]
       /\ built' = Pending
       /\ SolveFrom(kw, fetch, reply)
  /\ UNCHANGED <<fs, threads>>

Send ==
  /\ CanCall
  /\ \E kw \in SolveKwargs, fetch \in Fetches, reply \in Replies :
       \E s \in {send(self, kw, fs, fetch, reply)} :
           /\ op' = "send"
           /\ args' = [kwargs |-> kw, fetch |-> fetch, reply |-> reply]
           /\ posted' = s
           /\ result' = s.out
  /\ self' = has_callback_store(self)
  /\ pc' = "done"
  /\ built' = Pending
  /\ polls' = 0
  /\ last' = NoPoll
  /\ now' = 0
  /\ wait' = NoWait
  /\ UNCHANGED <<fs, threads>>

Normal ==
  /\ CanCall
  /\ \E f \in FileInputs, kw \in BuilderKwargs, fetch1 \in Fetches,
        fetch2 \in Fetches, reply \in Replies :
       /\ op' = "normal"
       /\ args' = [file_input |-> f, kwargs |-> kw]
       /\ \E b \in {normal(f, kw, fs, fetch1)} : BuilderThenSolve(b, fetch2, reply)
  /\ UNCHANGED <<fs, threads>>

Grid ==
  /\ CanCall
  /\ \E f \in FileInputs, kw \in BuilderKwargs, fetch1 \in Fetches,
        fetch2 \in Fetches, reply \in Replies :
       /\ op' = "grid"
       /\ args' = [file_input |-> f, kwargs |-> kw]
       /\ \E b \in {grid(f, kw, fs, fetch1)} : BuilderThenSolve(b, fetch2, reply)
  /\ UNCHANGED <<fs, threads>>

Canvas ==
  /\ CanCall
  /\ \E f \in FileInputs, kw \in BuilderKwargs, fetch1 \in Fetches,
        fetch2 \in Fetches, reply \in Replies :
       /\ op' = "canvas"
       /\ args' = [file_input |-> f, kwargs |-> kw]
       /\ \E b \in {canvas(f, kw, fs, fetch1)} : BuilderThenSolve(b, fetch2, reply)
  /\ UNCHANGED <<fs, threads>>

Coordinates ==
  /\ CanCall
  /\ \E f \in FileInputs, kw \in BuilderKwargs, fetch1 \in Fetches,
        fetch2 \in Fetches, reply \in Replies :
       /\ op' = "coordinates"
       /\ args' = [file_input |-> f, kwargs |-> kw]
       /\ \E b \in {coordinates(f, kw, fs, fetch1)} : BuilderThenSolve(b, fetch2, reply)
  /\ UNCHANGED <<fs, threads>>

Rotate ==
  /\ CanCall
  /\ \E f \in FileInputs \cup FilesInputs, kw \in BuilderKwargs,
        fetch1 \in Fetches, fetch2 \in Fetches, reply \in Replies :
       /\ op' = "rotate"
       /\ args' = [file_input |-> f, kwargs |-> kw]
       /\ \E b \in {rotate(f, kw, fs, fetch1)} : BuilderThenSolve(b, fetch2, reply)
  /\ UNCHANGED <<fs, threads>>

Audio ==
  /\ CanCall
  /\ \E f \in FileInputs, lang \in {"en", "xx"}, kw \in BuilderKwargs,
        fetch1 \in Fetches, fetch2 \in Fetches, reply \in Replies :
       /\ op' = "audio"
       /\ args' = [file_input |-> f, kwargs |-> kw, lang |-> lang]
       /\ \E b \in {audio(f, lang, kw, fs, fetch1)} :
            BuilderThenSolve(b, fetch2, reply)
  /\ UNCHANGED <<fs, threads>>

Recaptcha ==
  /\ CanCall
  /\ \E kw \in RecaptchaKwargs, fetch \in {FetchOk(<<>>)}, reply \in Replies :
       /\ op' = "recaptcha"
       /\ args' = [site_key |-> <<"s">>, url |-> CB_URL, kwargs |-> kw, reply |-> reply]
       /\ \E b \in {recaptcha(self, <<"s">>, CB_URL, <<"v2">>, NumV(0), kw)} :
            BuilderThenSolve(b, fetch, reply)
  /\ UNCHANGED <<fs, threads>>

\* rename_params and get_method, called on the client
RenameParams ==
  /\ CanCall
  /\ \E params \in RenameInputs :
       /\ op' = "rename_params"
       /\ args' = [params |-> params]
       /\ result' = Ret(rename_params(params))
  /\ pc' = "done"
  /\ built' = Pending
  /\ posted' = NoPost
  /\ polls' = 0
  /\ last' = NoPoll
  /\ now' = 0
  /\ wait' = NoWait
  /\ UNCHANGED <<self, fs, threads>>

GetMethod ==
  /\ CanCall
  /\ \E f \in FileInputs, fetch \in Fetches :
       /\ op' = "get_method"
       /\ args' = [file_input |-> f, fetch |-> fetch]
       /\ result' = get_method(f, fs, fetch)
  /\ pc' = "done"
  /\ built' = Pending
  /\ posted' = NoPost
  /\ polls' = 0
  /\ last' = NoPoll
  /\ now' = 0
  /\ wait' = NoWait
  /\ UNCHANGED <<self, fs, threads>>

\* check_hint_img, called on the client with an instruction image
CheckHintImg ==
  /\ CanCall
  /\ \E hint \in FileInputs, fetch \in Fetches :
       \E params \in {<<<<"method", <<"post">>>>, <<"imginstructions", hint>>>>} :
           /\ op' = "check_hint_img"
           /\ args' = [params |-> params, fetch |-> fetch]
           /\ result' = check_hint_img(params, fs, fetch)
  /\ pc' = "done"
  /\ built' = Pending
  /\ posted' = NoPost
  /\ polls' = 0
  /\ last' = NoPoll
  /\ now' = 0
  /\ wait' = NoWait
  /\ UNCHANGED <<self, fs, threads>>

\* ApiClient.in_ and ApiClient.res, called on self.api_client
In ==
  /\ CanCall
  /\ \E files \in InFiles, kw \in InKwargs, reply \in Replies :
       \E r \in {in_(files, kw, fs, reply)} :
           /\ op' = "in_"
           /\ args' = [files |-> files, kwargs |-> kw, reply |-> reply]
           /\ posted' = r
           /\ result' = r.out
  /\ pc' = "done"
  /\ built' = Pending
  /\ polls' = 0
  /\ last' = NoPoll
  /\ now' = 0
  /\ wait' = NoWait
  /\ UNCHANGED <<self, fs, threads>>

Res ==
  /\ CanCall
  /\ \E reply \in Replies :
       \E kw \in {<<<<"key", self.api_key>>, <<"action", <<"getbalance">>>>>>} :
       \E r \in {res(kw, reply)} :
           /\ op' = "res"
           /\ args' = [kwargs |-> kw, reply |-> reply]
           /\ polls' = 1
           /\ last' = PollRecord(0, 0, kw, reply, r)
           /\ result' = r
  /\ pc' = "done"
  /\ built' = Pending
  /\ posted' = NoPost
  /\ now' = 0
  /\ wait' = NoWait
  /\ UNCHANGED <<self, fs, threads>>

GetResult ==
  /\ CanCall
  /\ \E id_ \in Handles, reply \in Replies :
       \E r \in {get_result(self, id_, reply)} :
           /\ op' = "get_result"
           /\ args' = [id_ |-> id_, reply |-> reply]
           /\ polls' = 1
           /\ last' = PollRecord(0, 0, get_result_kwargs(self, id_), reply, r)
           /\ result' = r
  /\ pc' = "done"
  /\ built' = Pending
  /\ posted' = NoPost
  /\ now' = 0
  /\ wait' = NoWait
  /\ UNCHANGED <<self, fs, threads>>

\* ------------------------------------------------------------------------
\* wait_result
\* ------------------------------------------------------------------------
\* max_wait = time.time() + timeout
WaitResult ==
  /\ CanCall
  /\ now' = 0
  /\ \E id_ \in {<<"a">>}, timeout \in Timeouts, polling_interval \in Intervals :
       /\ op' = "wait_result"
       /\ args' = [id_ |-> id_, timeout |-> timeout,
                   polling_interval |-> polling_interval]
       /\ wait' = [id_ |-> id_, timeout |-> timeout,
                   polling_interval |-> polling_interval,
                   max_wait |-> now' + timeout, from_solve |-> FALSE]
  /\ pc' = "loop"
  /\ result' = Pending
  /\ built' = Pending
  /\ posted' = NoPost
  /\ polls' = 0
  /\ last' = NoPoll
  /\ UNCHANGED <<self, fs, threads>>

\* a variant that still enters the loop at the deadline itself
LoopTest_Inclusive(t, max_wait) == t <= max_wait

\* while time.time() < max_wait
LoopTest(t, max_wait) == t < max_wait

\* a variant whose except clause takes every exception (except Exception)
Caught_Any(exc) == TRUE

\* except NetworkException, in solver.py: the class solver.py defines
Caught(exc) == exc = "NetworkException"

\* what the caller of wait_result makes of its return value
Returned(code) ==
  IF wait.from_solve THEN Ret(Set(result.val, "code", code)) ELSE Ret(code)

\* one pass through the try: get_result takes d seconds to return or raise
Poll ==
  /\ pc = "loop"
  /\ LoopTest(now, wait.max_wait)
  /\ polls < MaxAttempts
  /\ \E reply \in Replies, d \in 0..MaxPollDur :
       \E r \in {get_result(self, wait.id_, reply)} :
           /\ now' = now + d
           /\ polls' = polls + 1
           /\ last' = PollRecord(now, now + d, get_result_kwargs(self, wait.id_), reply, r)
           /\ IF r.exc = "none"
              THEN /\ result' = Returned(r.val)
                   /\ pc' = "done"
              ELSE IF Caught(r.exc)
              THEN /\ result' = result
                   /\ pc' = "sleep"
              ELSE /\ result' = r
                   /\ pc' = "done"
  /\ UNCHANGED <<self, fs, threads, op, args, built, posted, wait>>

\* a variant whose except clause does not sleep
Sleep_Skipped ==
  /\ pc = "sleep"
  /\ pc' = "loop"
  /\ last' = [last EXCEPT !.slept = 0]
  /\ UNCHANGED <<self, fs, threads, op, args, built, result, posted, polls, now, wait>>

\* time.sleep(polling_interval) in the except clause: it raises ValueError
\* on a negative argument and otherwise returns after at least that long
Sleep ==
  /\ pc = "sleep"
  /\ IF wait.polling_interval < 0
     THEN /\ result' = Raise("ValueError")
          /\ pc' = "done"
          /\ UNCHANGED <<now, last>>
     ELSE \E over \in 0..MaxOversleep :
            /\ now' = now + wait.polling_interval + over
            /\ last' = [last EXCEPT !.slept = wait.polling_interval + over]
            /\ pc' = "loop"
            /\ result' = result
  /\ UNCHANGED <<self, fs, threads, op, args, built, posted, polls, wait>>

\* the while test fails: raise TimeoutException
Timeout ==
  /\ pc = "loop"
  /\ ~LoopTest(now, wait.max_wait)
  /\ result' = Raise("TimeoutException")
  /\ pc' = "done"
  /\ UNCHANGED <<self, fs, threads, op, args, built, posted, polls, last, now, wait>>

\* the caller has the outcome of its call and makes the next one
Return ==
  /\ pc = "done"
  /\ pc' = "idle"
  /\ op' = "none"
  /\ args' = <<>>
  /\ built' = Pending
  /\ result' = Pending
  /\ posted' = NoPost
  /\ polls' = 0
  /\ last' = NoPoll
  /\ now' = 0
  /\ wait' = NoWait
  /\ UNCHANGED <<self, fs, threads>>

Next ==
  \/ Solve \/ Send \/ Normal \/ Grid \/ Canvas \/ Coordinates \/ Rotate
  \/ Audio \/ In \/ Res \/ GetResult \/ WaitResult \/ Poll \/ Sleep \/ Timeout
  \/ RenameParams \/ GetMethod \/ CheckHintImg \/ Recaptcha \/ Return

Spec == Init /\ [][Next]_vars

\* the thread that runs wait_result keeps running
FairSpec == Spec /\ WF_vars(Poll) /\ WF_vars(Sleep) /\ WF_vars(Timeout)

\* ------------------------------------------------------------------------
\* Two threads that call solve and wait_result on one client.  A thread's
\* arguments and local variables are its own; the client (self), the file
\* system and the clock are shared.  send reads the client's fields in
\* default_params and works on its own mapping from there on.
\* ------------------------------------------------------------------------
ConcKwargs ==
  { <<<<"method", <<"userrecaptcha">>>>, <<"site_key", <<"s">>>>, <<"url", CB_URL>>>>,
    <<<<"method", <<"post">>>>, <<"file", PNG>>, <<"hint_img", PNG>>>>,
    <<<<"method", <<"base64">>>>, <<"body", B64_20>>, <<"callback", CB_URL>>,
      <<"polling_interval", NumV(1)>>>> }

ConcReplies ==
  { Reply(200, CAPCHA_NOT_READY), Reply(200, OK_ \o <<"a", "b", "c", "1", "2", "3">>),
    Reply(200, ERROR_ \o <<":", "k">>), RequestException }

\* the handle thread t waits for
ThreadHandle(t) == IF t = 1 THEN <<"a">> ELSE <<"b">>

\* thread t calls solve(**kw)
TSolve(t) ==
  /\ threads[t].pc = "idle"
  /\ \E kw \in ConcKwargs :
       threads' = [threads EXCEPT ![t] =
                     [IdleThread EXCEPT !.pc = "send", !.op = "solve", !.kwargs = kw]]
  /\ UNCHANGED <<self, fs, pc, op, args, built, result, posted, polls, last, now, wait>>

\* send in thread t, and the branch of solve on self.callback
TSend(t) ==
  /\ threads[t].pc = "send"
  /\ \E reply \in ConcReplies :
     \E th \in {threads[t]} :
     \E s \in {send(self, Pop(Pop(th.kwargs, "timeout"), "polling_interval"), fs,
                    FetchOk(<<>>), reply)} :
     \E st \in {solve_after_send(self, Get(th.kwargs, "timeout", NumV(0)),
                                 Get(th.kwargs, "polling_interval", NumV(0)), s, now)} :
       threads' = [threads EXCEPT ![t] =
                     [th EXCEPT !.reply = reply, !.posted = s, !.result = st.result,
                                !.pc = st.pc, !.wait = st.wait]]
  /\ self' = has_callback_store(self)
  /\ UNCHANGED <<fs, pc, op, args, built, result, posted, polls, last, now, wait>>

\* thread t calls wait_result(id_, timeout, polling_interval)
TWaitResult(t) ==
  /\ threads[t].pc = "idle"
  /\ \E id_ \in {ThreadHandle(t)}, timeout \in {1, 3}, polling_interval \in {1} :
       threads' = [threads EXCEPT ![t] =
                     [IdleThread EXCEPT
                        !.pc = "loop", !.op = "wait_result",
                        !.wait = [id_ |-> id_, timeout |-> timeout,
                                  polling_interval |-> polling_interval,
                                  max_wait |-> now + timeout, from_solve |-> FALSE]]]
  /\ UNCHANGED <<self, fs, pc, op, args, built, result, posted, polls, last, now, wait>>

\* one pass through the try of wait_result in thread t
TPoll(t) ==
  /\ threads[t].pc = "loop"
  /\ LoopTest(now, threads[t].wait.max_wait)
  /\ \E reply \in ConcReplies :
     \E th \in {threads[t]} :
     \E r \in {get_result(self, th.wait.id_, reply)} :
       threads' = [threads EXCEPT ![t] =
                     [th EXCEPT
                        !.last = PollRecord(now, now, get_result_kwargs(self, th.wait.id_),
                                            reply, r),
                        !.result = IF r.exc = "none"
                                   THEN IF th.wait.from_solve
                                        THEN Ret(Set(th.result.val, "code", r.val))
                                        ELSE Ret(r.val)
                                   ELSE IF Caught(r.exc) THEN th.result ELSE r,
                        !.pc = IF r.exc # "none" /\ Caught(r.exc) THEN "sleep"
                               ELSE "done"]]
  /\ UNCHANGED <<self, fs, pc, op, args, built, result, posted, polls, last, now, wait>>

\* thread t enters time.sleep(polling_interval)
TSleep(t) ==
  /\ threads[t].pc = "sleep"
  /\ \E th \in {threads[t]} :
       threads' = [threads EXCEPT ![t] =
                     IF th.wait.polling_interval < 0
                     THEN [th EXCEPT !.result = Raise("ValueError"), !.pc = "done"]
                     ELSE [th EXCEPT !.pc = "asleep",
                                     !.wake = now + th.wait.polling_interval]]
  /\ UNCHANGED <<self, fs, pc, op, args, built, result, posted, polls, last, now, wait>>

\* time.sleep returns in thread t, not before the interval has passed
TWake(t) ==
  /\ threads[t].pc = "asleep"
  /\ now >= threads[t].wake
  /\ \E th \in {threads[t]} :
       threads' = [threads EXCEPT ![t] =
                     [th EXCEPT !.pc = "loop",
                                !.last = [th.last EXCEPT
                                            !.slept = now - (th.wake - th.wait.polling_interval)]]]
  /\ UNCHANGED <<self, fs, pc, op, args, built, result, posted, polls, last, now, wait>>

\* the while test fails in thread t
TTimeout(t) ==
  /\ threads[t].pc = "loop"
  /\ ~LoopTest(now, threads[t].wait.max_wait)
  /\ threads' = [threads EXCEPT ![t] =
                   [@ EXCEPT !.result = Raise("TimeoutException"), !.pc = "done"]]
  /\ UNCHANGED <<self, fs, pc, op, args, built, result, posted, polls, last, now, wait>>

\* a second passes on the clock time.time() reads
Tick ==
  /\ now < MaxNow
  /\ now' = now + 1
  /\ UNCHANGED <<self, fs, pc, op, args, built, result, posted, polls, last, wait, threads>>

ConcNext ==
  \/ Tick
  \/ \E t \in Threads :
       \/ TSolve(t) \/ TSend(t) \/ TWaitResult(t) \/ TPoll(t) \/ TSleep(t)
       \/ TWake(t) \/ TTimeout(t)

ConcSpec == Init /\ [][ConcNext]_vars

\* ------------------------------------------------------------------------
\* Vocabulary of the properties
\* ------------------------------------------------------------------------
Builders == {"normal", "grid", "canvas", "coordinates", "rotate", "audio"}

\* a reply with a success status in the sense of HTTP
Is2xx(reply) == ~reply.net /\ reply.status \in 200..299

\* a network failure or a non-success status
IsTransportFailure(reply) == reply.net \/ reply.status \notin 200..299

\* the reply get_result takes for "not ready"
IsNotReady(reply) ==
  ~reply.net /\ reply.status = 200 /\ reply.text = CAPCHA_NOT_READY

\* a 2xx body of the shape OK|<handle>
IsOkShape(reply) ==
  Is2xx(reply) /\ StartsWith(reply.text, OK_) /\ ~Contains(reply.text, ERROR_)

\* the service takes the submission, or has the answer: status 200 and a body
\* OK|<text>
Accepted(reply) == IsOkShape(reply) /\ reply.status = 200

\* the keyword arguments kw of send or solve pass validation: the
\* instruction image resolves and every local file named exists
PassesValidation(kw, fetch) ==
  Let(check_hint_img(rename_params(Pop(Pop(kw, "timeout"), "polling_interval")),
                     fs, fetch), LAMBDA ch :
    /\ ch.exc = "none"
    /\ \A i \in 1..Len(ch.val.files) : ch.val.files[i][2] \in fs
    /\ Has(ch.val.params, "file") => Get(ch.val.params, "file", NoneV) \in fs)

\* every poll of the call so far was answered with the not-ready sentinel
\* (a poll answered otherwise ends wait_result, so only the last can differ)
AllNotReady == polls = 0 \/ IsNotReady(last.reply)

InWaitResult == op = "wait_result" \/ wait.from_solve

HasFilePayload(req) ==
  \/ Has(req, "file")
  \/ Has(req, "files") /\ Truthy(Get(req, "files", NoneV))

HasBodyPayload(req) == Has(req, "body")

\* ------------------------------------------------------------------------
\* C1
\* ------------------------------------------------------------------------
\* C1: with a callback URL configured on the client, a solve whose submission
\* the service accepts returns a result holding the handle (captchaId) and no
\* answer (code), and the call makes no request to the result endpoint.
C1_CallbackSolveReturnsHandleOnly ==
  ( /\ op = "solve" /\ pc = "done"
    /\ Truthy(self.callback)
    /\ PassesValidation(args.kwargs, args.fetch)
    /\ Accepted(args.reply) )
  => /\ result = Ret(<<<<"captchaId", From(args.reply.text, 3)>>>>)
     /\ polls = 0

\* ------------------------------------------------------------------------
\* C2
\* ------------------------------------------------------------------------
\* C2: for every parameter mapping that passes validation and every response
\* body OK|<handle>, send returns exactly the text after "OK|".
C2_SendReturnsHandle ==
  ( /\ op = "send" /\ pc = "done"
    /\ PassesValidation(args.kwargs, args.fetch)
    /\ Accepted(args.reply) )
  => result = Ret(From(args.reply.text, 3))

\* ------------------------------------------------------------------------
\* C3
\* ------------------------------------------------------------------------
\* C3: every result solve returns holds the handle, and holds the answer
\* exactly when the call polled; without a callback, after a submission that
\* returned handle h, solve goes on to poll, and a poll answered OK|a makes it
\* return captchaId = h and code = a.
C3_SolveResult ==
  (op = "solve" /\ pc = "done")
  => /\ result.exc = "none"
        => /\ Has(result.val, "captchaId")
           /\ Has(result.val, "code") <=> polls > 0
     /\ ( /\ self.callback = NoneV
          /\ PassesValidation(args.kwargs, args.fetch)
          /\ Accepted(args.reply) )
        => /\ polls > 0 \/ result.exc = "TimeoutException"
           /\ (polls > 0 /\ Accepted(last.reply))
              => result = Ret(<<<<"captchaId", From(args.reply.text, 3)>>,
                                <<"code", From(last.reply.text, 3)>>>>)

C5_TransportErrorRetried ==
  (InWaitResult /\ polls > 0 /\ IsTransportFailure(last.reply))
  => /\ pc \in {"sleep", "loop", "done"}
     /\ pc = "done" => result.exc = "TimeoutException"

\* ------------------------------------------------------------------------
\* C6
\* ------------------------------------------------------------------------
\* C6: whatever solve, send, get_result and wait_result raise is one of the
\* four subclasses of SolverExceptions.
C6_OnlySolverExceptions ==
  (pc = "done" /\ op \in {"solve", "send", "get_result", "wait_result"})
  => result.exc \in SolverExceptions \cup {"none"}

\* ------------------------------------------------------------------------
\* C7
\* ------------------------------------------------------------------------
\* C7: send raises ApiException when the 2xx body is not of the shape
\* OK|<handle> (every body containing ERROR included) and a network error
\* when the transport fails; in neither case does it return a handle.
C7_SendErrors ==
  (op = "send" /\ pc = "done" /\ PassesValidation(args.kwargs, args.fetch))
  => /\ (Is2xx(args.reply) /\ ~IsOkShape(args.reply))
        => result.exc \in {"ApiException", "api.ApiException"}
     /\ IsTransportFailure(args.reply)
        => result.exc \in {"NetworkException", "api.NetworkException"}

\* ------------------------------------------------------------------------
\* C8
\* ------------------------------------------------------------------------
RequestMade == (op = "in_" /\ posted.sent) \/ op = "res"

\* C8 as stated: in_ and res raise NetworkException on every network
\* failure and every non-2xx status, ApiException on every 2xx body with the
\* marker ERROR, and return every other 2xx body unchanged.
C8_AsStated ==
  (pc = "done" /\ RequestMade)
  => /\ IsTransportFailure(args.reply) => result = Raise("api.NetworkException")
     /\ (Is2xx(args.reply) /\ Contains(args.reply.text, ERROR_))
        => result = Raise("api.ApiException")
     /\ (Is2xx(args.reply) /\ ~Contains(args.reply.text, ERROR_))
        => result = Ret(args.reply.text)

\* C8, amended: in_ and res raise NetworkException on every network failure
\* and every status other than 200 (201 and the other 2xx included),
\* ApiException on every status 200 body with the marker ERROR, and return
\* every other status 200 body unchanged.
C8_Classification ==
  (pc = "done" /\ RequestMade)
  => /\ (args.reply.net \/ args.reply.status # 200)
        => result = Raise("api.NetworkException")
     /\ (~args.reply.net /\ args.reply.status = 200
         /\ Contains(args.reply.text, ERROR_))
        => result = Raise("api.ApiException")
     /\ (~args.reply.net /\ args.reply.status = 200
         /\ ~Contains(args.reply.text, ERROR_))
        => result = Ret(args.reply.text)

C8_Witness ==
  /\ pc = "done" /\ op = "in_" /\ posted.sent
  /\ args.reply.status = 201
  /\ ~Contains(args.reply.text, ERROR_)
  /\ result = Raise("api.NetworkException")

\* ------------------------------------------------------------------------
\* C9
\* ------------------------------------------------------------------------
\* C9: wait_result raises TimeoutException only once the time since the loop
\* began has reached the timeout and no poll has returned an answer, and it
\* starts no poll at or after the deadline.
C9_TimeoutOnlyAtDeadline ==
  InWaitResult
  => /\ result.exc = "TimeoutException"
        => /\ now >= wait.timeout
           /\ polls = 0 \/ last.out.exc # "none"
     /\ polls > 0 => last.start < wait.timeout

C9_Witness ==
  /\ op = "wait_result" /\ pc = "done"
  /\ result.exc = "TimeoutException"
  /\ polls >= 2
  /\ wait.timeout > 0

\* ------------------------------------------------------------------------
\* C10
\* ------------------------------------------------------------------------
\* C10: the request an image or audio builder hands to solve carries either a
\* file payload or a base64 body, never both and never neither, whatever
\* file_input and 'body' keyword the builder was called with.
C10_OnePayload ==
  (op \in Builders /\ built.exc = "none" /\ ~Has(args.kwargs, "file"))
  => HasFilePayload(built.val) # HasBodyPayload(built.val)

\* ------------------------------------------------------------------------
\* C11
\* ------------------------------------------------------------------------
\* the value of key "proxy" in m is a descriptor {type, uri}
HasProxyDescriptor(m) ==
  /\ Has(m, "proxy")
  /\ IsDictV(Get(m, "proxy", NoneV))
  /\ Keys(Get(m, "proxy", NoneV)[2]) = {"type", "uri"}

\* the mapping w carries the descriptor of m as the two scalar fields, and no
\* nested structure
Flattened(w, m) ==
  /\ Get(w, "proxy", NoneV) = Get(Get(m, "proxy", NoneV)[2], "uri", NoneV)
  /\ Get(w, "proxytype", NoneV) = Get(Get(m, "proxy", NoneV)[2], "type", NoneV)
  /\ \A i \in 1..Len(w) : ~IsDictV(w[i][2])

\* the translation half of C11: what rename_params returns
ProxyTranslated ==
  (op = "rename_params" /\ pc = "done")
  => /\ HasProxyDescriptor(args.params) => Flattened(result.val, args.params)
     /\ (~Has(args.params, "proxy") \/ ~IsDictV(Get(args.params, "proxy", NoneV)))
        => ~Has(result.val, "proxy") /\ ~Has(result.val, "proxytype")

\* C11: a proxy descriptor {type, uri} in the parameters appears in the mapping
\* rename_params returns, and in the request send or solve posts, as the two
\* scalar fields proxy = uri and proxytype = type and never as a nested
\* structure; an absent or non-dict proxy yields neither field.
C11_ProxyFlattened ==
  /\ ProxyTranslated
  /\ ( /\ op \in {"send", "solve"} /\ pc # "idle"
       /\ HasProxyDescriptor(args.kwargs)
       /\ PassesValidation(args.kwargs, args.fetch) )
     => posted.sent /\ Flattened(posted.data, args.kwargs)

\* ------------------------------------------------------------------------
\* C12
\* ------------------------------------------------------------------------
\* a == b on two dicts: the same keys with the same values, in any order
DictEq(a, b) == Range(a) = Range(b)

\* C12: translating the mapping rename_params returned gives that mapping
\* again, for every input mapping, with or without a proxy descriptor; and no
\* wire name of the renaming table is the user-facing key of another entry.
C12_RenameIdempotent ==
  /\ (op = "rename_params" /\ pc = "done")
     => DictEq(rename_params(result.val), result.val)
  /\ \A i, j \in 1..Len(replace) : i # j => replace[i][2] # replace[j][1]

\* ------------------------------------------------------------------------
\* C13
\* ------------------------------------------------------------------------
\* the multipart-file encoding of the local file path
MultipartFile(path) == <<<<"method", <<"post">>>>, <<"file", path>>>>

\* the inline-base64 encoding with body b
InlineBase64(b) == <<<<"method", <<"base64">>>>, <<"body", b>>>>

\* C13: for every string that names an existing local file, get_method returns
\* the multipart-file encoding {'method': 'post', 'file': path} without a
\* fetch, and the audio builder hands the file on as a file: neither encodes
\* the file's content as an inline base64 body nor fetches the string as a URL.
C13_ExistingFileIsMultipart ==
  /\ (op = "get_method" /\ pc = "done" /\ args.file_input \in fs)
     => /\ result.exc = "none"
        /\ result.val = MultipartFile(args.file_input)
        /\ result.fetched = 0
  /\ (op = "audio" /\ pc # "idle" /\ args.file_input \in fs /\ built.exc = "none")
     => /\ Get(built.val, "file", NoneV) = args.file_input
        /\ ~Has(built.val, "body")

\* ------------------------------------------------------------------------
\* C14
\* ------------------------------------------------------------------------
\* s begins with http:// or https:// (in either case of the letters), goes on
\* with a host, and is a URL urlparse can read
HasHttpSchemeAndHost(s) ==
  /\ IsStr(s)
  /\ \E p \in {<<"h", "t", "t", "p", ":", "/", "/">>,
               <<"h", "t", "t", "p", "s", ":", "/", "/">>} :
       /\ StartsWith(LowerText(s), p)
       /\ Len(s) > Len(p)
       /\ s[Len(p) + 1] \notin {"/", "?", "#"}
  /\ ("[" \in Range(s)) = ("]" \in Range(s))

C15_Base64Inline ==
  ( /\ op = "get_method" /\ pc = "done"
    /\ IsStr(args.file_input)
    /\ Len(args.file_input) >= 20
    /\ B64Regex(args.file_input)
    /\ args.file_input \notin fs
    /\ ~HasHttpSchemeAndHost(args.file_input) )
  => /\ result.exc = "none"
     /\ result.val = InlineBase64(args.file_input)

SolveSubmitted ==
  /\ op = "solve" /\ pc # "idle"
  /\ self.callback = NoneV
  /\ PassesValidation(args.kwargs, args.fetch)
  /\ Accepted(args.reply)

\* C17: solve polls with the timeout and the polling_interval of the call when
\* they are given, and with the default_timeout and the polling_interval of
\* the client when they are not.
C17_SolveTimeouts ==
  SolveSubmitted
  => /\ wait.from_solve
     /\ NumV(wait.timeout)
          = Get(args.kwargs, "timeout", NumV(self.default_timeout))
     /\ NumV(wait.polling_interval)
          = Get(args.kwargs, "polling_interval", NumV(self.polling_interval))

\* ------------------------------------------------------------------------
\* C18
\* ------------------------------------------------------------------------
\* C18: when a submission names a local file as its captcha payload ('file'),
\* the request that goes out carries the file as a multipart file payload and
\* does not carry its path as a form field, also when an instruction image or
\* other file payloads are part of the same submission.
C18_FileNeverScalar ==
  ( /\ pc # "idle" /\ op \in {"in_", "send", "solve"}
    /\ posted.sent
    /\ Has(args.kwargs, "file")
    /\ Get(args.kwargs, "file", NoneV) \in fs )
  => /\ Get(posted.upload, "file", NoneV) = Get(args.kwargs, "file", NoneV)
     /\ ~Has(posted.data, "file")

\* ------------------------------------------------------------------------
\* C19
\* ------------------------------------------------------------------------
\* C19: the poll loop solve starts after an accepted submission runs with a
\* timeout above zero and a polling interval above zero, whatever timeout and
\* polling_interval the call and the constructor were given.
C19_PositiveTimeoutAndInterval ==
  SolveSubmitted
  => /\ wait.from_solve
     /\ wait.timeout > 0
     /\ wait.polling_interval > 0

\* ------------------------------------------------------------------------
\* C20
\* ------------------------------------------------------------------------
\* a step of wait_result that makes a poll
PollStep == InWaitResult /\ pc = "loop" /\ polls' = polls + 1

\* C20: in wait_result a poll answered not-ready is followed by
\* time.sleep(polling_interval), and a poll is made after an earlier one only
\* once that sleep has returned, so it starts at least the polling interval
\* after the earlier one ended; no sleep follows a poll that returned an
\* answer.
C20_SleepBetweenPolls ==
  /\ [](InWaitResult =>
          /\ pc = "sleep" => IsNotReady(last.reply)
          /\ (polls > 0 /\ last.out.exc = "none") => pc = "done" /\ last.slept = -1)
  /\ [][PollStep =>
          /\ IsNotReady(last'.reply) => pc' = "sleep"
          /\ last'.out.exc = "none" => pc' = "done"
          /\ polls > 0 => /\ IsNotReady(last.reply)
                          /\ last.slept >= wait.polling_interval
                          /\ last'.start >= last.end + wait.polling_interval]_vars

C20_Witness ==
  /\ op = "wait_result" /\ pc = "sleep"
  /\ polls = 2
  /\ wait.polling_interval = 2
  /\ last.start >= 2
  /\ IsNotReady(last.reply)

\* ------------------------------------------------------------------------
\* C21
\* ------------------------------------------------------------------------
\* a reply to a poll that is a protocol error: a body that contains ERROR, or
\* a 2xx body that is neither the not-ready sentinel nor of the shape OK|...
ProtocolError(reply) ==
  /\ ~reply.net
  /\ \/ Contains(reply.text, ERROR_)
     \/ /\ Is2xx(reply)
        /\ reply.text # CAPCHA_NOT_READY
        /\ ~StartsWith(reply.text, OK_)

\* C21: a poll of wait_result answered with a protocol error ends the call on
\* that attempt with the exception get_result raised; no sleep follows it and
\* no further poll is made.
C21_ProtocolErrorRaisedAtOnce ==
  /\ []((InWaitResult /\ polls > 0 /\ ProtocolError(last.reply))
          => /\ pc = "done"
             /\ result = last.out
             /\ result.exc \in SolverExceptions \cup ApiModuleExceptions
             /\ last.slept = -1)
  /\ [][PollStep => (polls > 0 => ~ProtocolError(last.reply))]_vars

C21_Witness ==
  /\ op = "wait_result" /\ pc = "done"
  /\ polls = 2
  /\ last.reply = Reply(200, <<"x">> \o OK_ \o <<"a">>)
  /\ result = Raise("ApiException")
  /\ last.slept = -1

\* ------------------------------------------------------------------------
\* C22
\* ------------------------------------------------------------------------
\* the pair (params, files) r carries the instruction image in the encoding
\* class of the get_method outcome m: a file payload, or inline base64
SameEncodingClass(r, m) ==
  IF Has(m, "file")
  THEN /\ Get(r.files, "imginstructions", NoneV) = Get(m, "file", NoneV)
       /\ ~Has(r.params, "imginstructions")
  ELSE /\ Get(r.params, "imginstructions", NoneV) = Get(m, "body", NoneV)
       /\ ~Has(r.files, "imginstructions")

\* C22: for every instruction image given, check_hint_img raises
\* ValidationException exactly when get_method does on the same value (a
\* download that fails included), raises nothing else, and otherwise puts
\* the image in the encoding class get_method picks.
C22_HintResolvedAsGetMethod ==
  ( /\ op = "check_hint_img" /\ pc = "done"
    /\ Truthy(Get(args.params, "imginstructions", NoneV)) )
  => Let(get_method(Get(args.params, "imginstructions", NoneV), fs, args.fetch),
         LAMBDA m :
       /\ result.exc \in {"none", "ValidationException"}
       /\ result.exc = m.exc
       /\ m.exc = "none" => SameEncodingClass(result.val, m.val))

\* ------------------------------------------------------------------------
\* C23
\* ------------------------------------------------------------------------
\* what the call of thread record th returns or raises when it runs alone:
\* the outcome of its own submission, or of its own last poll
SoloResult(th) ==
  IF th.op = "solve" /\ th.posted.out.exc # "none" THEN th.posted.out
  ELSE IF th.op = "solve" /\ self.callback # NoneV
  THEN Ret(<<<<"captchaId", th.posted.out.val>>>>)
  ELSE IF th.last # NoPoll /\ th.last.out.exc = "none"
  THEN IF th.op = "solve"
       THEN Ret(<<<<"captchaId", th.posted.out.val>>, <<"code", th.last.out.val>>>>)
       ELSE Ret(th.last.out.val)
  ELSE IF th.last # NoPoll /\ th.last.out.exc # "NetworkException" THEN th.last.out
  ELSE Raise("TimeoutException")

WirePairs ==
  { <<"case_sensitive", "regsense">>, <<"hint_text", "textinstructions">>,
    <<"hint_img", "imginstructions">>, <<"url", "pageurl">>,
    <<"callback", "pingback">>, <<"site_key", "sitekey">>,
    <<"rows", "recaptcharows">>, <<"cols", "recaptchacols">>,
    <<"can_skip", "can_no_answer">> }

\* the name key k goes out under
WireName(k) ==
  IF \E p \in WirePairs : p[1] = k THEN (CHOOSE p \in WirePairs : p[1] = k)[2]
  ELSE IF Has(replace, k) THEN Get(replace, k, k)
  ELSE IF k = "user_agent" THEN "useragent"
  ELSE k

\* no other key of the mapping m goes out under the name of its key k
AloneOnWire(m, k) == \A k2 \in Keys(m) \ {k} : WireName(k2) # WireName(k)

\* C24 as stated: rename_params maps every key of its table to its wire name
\* with the value unchanged, and every key not in the table other than proxy
\* appears in the output under the same name with the same value.
C24_AsStated ==
  (op = "rename_params" /\ pc = "done")
  => /\ \A p \in WirePairs :
          Has(args.params, p[1])
            => Get(result.val, p[2], NoneV) = Get(args.params, p[1], NoneV)
     /\ \A k \in Keys(args.params) \ {"proxy"} :
          ~Has(replace, k)
            => /\ Has(result.val, k)
               /\ Get(result.val, k, NoneV) = Get(args.params, k, NoneV)

\* C24: rename_params maps every key of its table to its wire name and
\* user_agent to useragent, with the value unchanged, and every other key
\* except proxy keeps its name and value; this for every key that is the
\* only one of the input with its wire name.  A key that is renamed does not
\* appear under its old name.
C24_Renamed ==
  (op = "rename_params" /\ pc = "done")
  => \A k \in Keys(args.params) \ {"proxy"} :
       AloneOnWire(args.params, k)
         => /\ Get(result.val, WireName(k), NoneV) = Get(args.params, k, NoneV)
            /\ Has(result.val, WireName(k))
            /\ WireName(k) # k => ~Has(result.val, k)

C24_Witness ==
  /\ op = "rename_params" /\ pc = "done"
  /\ Len(args.params) = 11
  /\ Get(result.val, "pageurl", NoneV) = IMG_URL
  /\ Get(result.val, "can_no_answer", NoneV) = NumV(0)
  /\ Get(result.val, "lang", NoneV) = <<"en">>

\* ------------------------------------------------------------------------
\* C25
\* ------------------------------------------------------------------------
\* the outcome r of get_method carries exactly one encoding, or none and a
\* ValidationException
OneEncodingOrInvalid(r) ==
  /\ r.exc \in {"none", "ValidationException"}
  /\ r.exc = "none" => (Has(r.val, "file") # Has(r.val, "body"))
  /\ r.exc # "none" => r.val = <<>>

\* C25 as stated: get_method returns the encoding of the first of the checks
\* URL, existing local file, base64 shape that matches, and raises
\* ValidationException when none matches or the argument is empty or not a
\* string.
C25_AsStated ==
  (op = "get_method" /\ pc = "done")
  => Let(args.file_input, LAMBDA f :
       /\ OneEncodingOrInvalid(result)
       /\ IF ~Truthy(f) \/ ~IsStr(f) THEN result.exc = "ValidationException"
          ELSE IF HasHttpSchemeAndHost(f)
          THEN /\ result.exc = "none"
               /\ Has(result.val, "body")
          ELSE IF f \in fs THEN result.val = MultipartFile(f)
          ELSE IF _is_base64_like(f) THEN result.val = InlineBase64(f)
          ELSE result.exc = "ValidationException")

\* C25: get_method applies its checks in the order URL, existing local file,
\* base64 shape and takes the first that matches: a URL is downloaded and
\* gives the inline-base64 encoding of the content, or ValidationException
\* when the download fails, whatever the later checks would say; an existing
\* file gives the file encoding; a base64 string the inline encoding.  It
\* raises ValidationException when none matches or the argument is empty or
\* not a string, and never returns more than one encoding.
C25_ChecksInOrder ==
  (op = "get_method" /\ pc = "done")
  => Let(args.file_input, LAMBDA f :
       /\ OneEncodingOrInvalid(result)
       /\ IF ~Truthy(f) \/ ~IsStr(f) THEN result.exc = "ValidationException"
          ELSE IF HasHttpSchemeAndHost(f)
          THEN IF args.fetch.failed THEN result.exc = "ValidationException"
               ELSE result.val = InlineBase64(b64encode(args.fetch.content))
          ELSE IF f \in fs THEN result.val = MultipartFile(f)
          ELSE IF _is_base64_like(f) THEN result.val = InlineBase64(f)
          ELSE result.exc = "ValidationException")

C25_Witness ==
  /\ op = "get_method" /\ pc = "done"
  /\ args.file_input = IMG_URL
  /\ args.file_input \in fs
  /\ B64_20 \in fs
  /\ ~args.fetch.failed
  /\ result.val = InlineBase64(b64encode(<<77, 97, 110>>))

\* ------------------------------------------------------------------------
\* C26
\* ------------------------------------------------------------------------
\* C26: when a builder, send or solve raises ValidationException, the call
\* has posted nothing to in.php and polled res.php not once, and it ends
\* there: the operation is not run again.
C26_InvalidInputSendsNothing ==
  ( /\ op \in Builders \cup {"recaptcha", "send", "solve"}
    /\ result.exc = "ValidationException" )
  => /\ pc = "done"
     /\ ~posted.sent
     /\ posted.data = EmptyDict /\ posted.upload = EmptyDict
     /\ polls = 0
     /\ last = NoPoll

C26_Witness ==
  /\ op = "rotate" /\ pc = "done"
  /\ args.file_input = ListV(Rep(PNG, max_files + 1))
  /\ PNG \in fs
  /\ result = Raise("ValidationException")
  /\ ~posted.sent /\ polls = 0

\* ------------------------------------------------------------------------
\* C27
\* ------------------------------------------------------------------------
\* the call in progress is a solve call, made directly or by a builder
InSolve == op \in Builders \cup {"recaptcha", "solve"}

C28_SkipsPollingIffPingback ==
  ( /\ op = "solve" /\ pc # "idle"
    /\ PassesValidation(args.kwargs, args.fetch)
    /\ Accepted(args.reply) )
  => Let(Get(args.kwargs, "callback", self.callback), LAMBDA cb :
       IF Truthy(cb)
       THEN /\ Get(posted.data, "pingback", NoneV) = cb
            /\ pc = "done"
            /\ result = Ret(<<<<"captchaId", From(args.reply.text, 3)>>>>)
            /\ polls = 0
       ELSE /\ posted.sent
            /\ ~Has(posted.data, "pingback")
            /\ wait.from_solve)

\* ------------------------------------------------------------------------
\* C29
\* ------------------------------------------------------------------------
\* C29 as stated: for every result body 'OK|a' that comes with status 200,
\* whatever the text a, get_result returns a, and so does the wait_result
\* call whose poll received it.
C29_AsStated ==
  ( /\ op \in {"get_result", "wait_result"}
    /\ polls > 0
    /\ ~last.reply.net /\ last.reply.status = 200
    /\ StartsWith(last.reply.text, OK_) )
  => /\ last.out = Ret(From(last.reply.text, 3))
     /\ pc = "done"
     /\ result = Ret(From(last.reply.text, 3))

\* C29: for every result body 'OK|a' that comes with status 200 and does not
\* contain ERROR, get_result returns a unchanged, and so does the wait_result
\* call whose poll received it; a body 'OK|a' that contains ERROR is a
\* protocol error like any other body with ERROR.
C29_AnswerReturnedUnlessError ==
  ( /\ op \in {"get_result", "wait_result"}
    /\ polls > 0
    /\ ~last.reply.net /\ last.reply.status = 200
    /\ StartsWith(last.reply.text, OK_) )
  => /\ pc = "done"
     /\ result = last.out
     /\ IF Contains(last.reply.text, ERROR_)
        THEN result = Raise("api.ApiException")
        ELSE result = Ret(From(last.reply.text, 3))

C29_Witness ==
  /\ op = "wait_result" /\ pc = "done"
  /\ polls = 2
  /\ last.reply = Reply(200, OK_ \o <<"E">>)
  /\ result = Ret(<<"E">>)

\* ------------------------------------------------------------------------
\* C30
\* ------------------------------------------------------------------------
\* C30: a timeout or polling_interval given to recaptcha does not make the
\* call fail, and the poll loop of an accepted submission without callback
\* runs with the timeout of the call when one is given and with the client's
\* recaptcha_timeout otherwise.
C30_RecaptchaTimeout ==
  (op = "recaptcha" /\ pc # "idle")
  => /\ built.exc = "none"
     /\ (Accepted(args.reply) /\ self.callback = NoneV)
          => /\ wait.from_solve
             /\ NumV(wait.timeout)
                  = Get(args.kwargs, "timeout", NumV(self.recaptcha_timeout))

=============================================================================
